---- MODULE Spec2Model ----
(***************************************************************************)
(* Lease coordination protocol of pkg/lease/manager.go.                    *)
(*                                                                         *)
(* Several managers, each with a fixed holder identity, share one record   *)
(* store (the Kubernetes API: Get / Create / Update / Delete of a          *)
(* coordination Lease) and one clock.  RequestLease and InvalidateLease    *)
(* are each a read followed by at most one write, so every call is split   *)
(* into the steps at which it touches the store or the clock, and calls of *)
(* different managers interleave between those steps.                      *)
(*                                                                         *)
(* Time is counted in ticks, TicksPerSecond ticks to the second, so that   *)
(* a requested duration can have a sub-second part, which                  *)
(* int32(duration.Seconds()) truncates.                                    *)
(***************************************************************************)
EXTENDS Integers, Sequences, FiniteSets, TLC

VARIABLES store, now, call, owned, last, cluster, verdict, recorder

vars == <<store, now, call, owned, last, cluster, verdict, recorder>>

\* the variables of the lease manager, and those of the etcd check and of the
\* event helpers, which the lease manager never touches
leaseVars == <<store, now, call, owned, last>>
aside == <<cluster, verdict, recorder>>

-----------------------------------------------------------------------------
(* Bounds of the model *)

\* the clock runs from 0 to MaxTime ticks
MaxTime == 4
\* the longest requested duration, in ticks
MaxDuration == 3
\* ticks per second: the resolution of the clock below one second
TicksPerSecond == 3

-----------------------------------------------------------------------------
(* Values *)

\* an optional value (a Go pointer): <<>> is nil, <<v>> points to v
Nil == <<>>
Some(v) == <<v>>
IsNil(p) == p = <<>>
Deref(p) == p[1]

\* int32 arithmetic of Go: += wraps around
MaxInt32 == 2147483647
MinInt32 == -2147483647 - 1
Int32Inc(x) == IF x = MaxInt32 THEN MinInt32 ELSE x + 1

\* the holder identities the managers are constructed with
Holders == {"some-operator", "different-owner"}

\* guarded objects handed to the manager: a Node and a Pod of the same name
Objects ==
  { [kind |-> "Node", version |-> "v1", name |-> "miau", uid |-> "foobar"],
    [kind |-> "Pod", version |-> "v1", name |-> "miau", uid |-> "foobar"] }

\* requested durations in ticks: none, the longest one below a second, and the
\* longest
Durations == {0, TicksPerSecond - 1, MaxDuration}

\* the seconds of a requested duration with a started second counted as a whole
DurationSecondsRoundsUp(d) == (d + TicksPerSecond - 1) \div TicksPerSecond

\* seconds written to the record for a requested duration:
\* int32(duration.Seconds()) drops the sub-second part
DurationSeconds(d) == d \div TicksPerSecond

\* the owner reference built from the guarded object
makeExpectedOwnerOfLease(obj) ==
  [apiVersion |-> obj.version, kind |-> obj.kind, name |-> obj.name, uid |-> obj.uid]

\* the key of the record of a guarded object: its name, in the managers' namespace
LeaseName(obj) == obj.name

Keys == {LeaseName(o) : o \in Objects}

-----------------------------------------------------------------------------
(* Errors *)

\* no error
ErrNil == [type |-> "nil", holderIdentity |-> Nil]
\* the store's errors
ErrNotFound == [type |-> "NotFound", holderIdentity |-> Nil]
ErrAlreadyExists == [type |-> "AlreadyExists", holderIdentity |-> Nil]
ErrConflict == [type |-> "Conflict", holderIdentity |-> Nil]
\* an error of the store that depends on no record: the server or the
\* connection failed
ErrInternal == [type |-> "InternalError", holderIdentity |-> Nil]
StoreFaults == {ErrInternal}
StoreErrors == {ErrNotFound, ErrAlreadyExists, ErrConflict} \cup StoreFaults
\* fmt.Errorf("can't update valid lease held by different owner")
ErrValidForeignLease == [type |-> "errorString", holderIdentity |-> Nil]
\* the typed error the tests expect, carrying the holder of the record
AlreadyHeldError(h) == [type |-> "AlreadyHeldError", holderIdentity |-> h]

-----------------------------------------------------------------------------
(* Ownership policy: pure functions of a record and an instant *)

leaseDueTime(lease) ==
  Deref(lease.renewTime) + Deref(lease.leaseDurationSeconds) * TicksPerSecond

\* needUpdateOwnedLease with the deadline itself counted as about to expire
needUpdateOwnedLeaseAtDeadline(lease, currentTime, requestedLeaseDuration) ==
  IF IsNil(lease.renewTime) \/ IsNil(lease.leaseDurationSeconds)
    THEN <<TRUE, TRUE>>
    ELSE IF leaseDueTime(lease) < currentTime
      THEN <<TRUE, IsNil(lease.acquireTime)>>
      ELSE <<leaseDueTime(lease) <= currentTime + requestedLeaseDuration, FALSE>>

\* needUpdateOwnedLease with an early renewal treated as a new acquisition
needUpdateOwnedLeaseReacquires(lease, currentTime, requestedLeaseDuration) ==
  IF IsNil(lease.renewTime) \/ IsNil(lease.leaseDurationSeconds)
    THEN <<TRUE, TRUE>>
    ELSE IF leaseDueTime(lease) < currentTime
      THEN <<TRUE, IsNil(lease.acquireTime)>>
      ELSE <<leaseDueTime(lease) < currentTime + requestedLeaseDuration, TRUE>>

\* needUpdateOwnedLease with every expired record treated as a new acquisition
needUpdateOwnedLeaseExpiredReacquires(lease, currentTime, requestedLeaseDuration) ==
  IF IsNil(lease.renewTime) \/ IsNil(lease.leaseDurationSeconds)
    THEN <<TRUE, TRUE>>
    ELSE IF leaseDueTime(lease) < currentTime
      THEN <<TRUE, TRUE>>
      ELSE <<leaseDueTime(lease) < currentTime + requestedLeaseDuration, FALSE>>

\* needUpdateOwnedLease with missing timing fields handled like an expiry
needUpdateOwnedLeaseMissingAsExpired(lease, currentTime, requestedLeaseDuration) ==
  IF IsNil(lease.renewTime) \/ IsNil(lease.leaseDurationSeconds)
    THEN <<TRUE, IsNil(lease.acquireTime)>>
    ELSE IF leaseDueTime(lease) < currentTime
      THEN <<TRUE, IsNil(lease.acquireTime)>>
      ELSE <<leaseDueTime(lease) < currentTime + requestedLeaseDuration, FALSE>>

\* needUpdateOwnedLease never setting acquireTime on an expired record
needUpdateOwnedLeaseExpiredRenewsOnly(lease, currentTime, requestedLeaseDuration) ==
  IF IsNil(lease.renewTime) \/ IsNil(lease.leaseDurationSeconds)
    THEN <<TRUE, TRUE>>
    ELSE IF leaseDueTime(lease) < currentTime
      THEN <<TRUE, FALSE>>
      ELSE <<leaseDueTime(lease) < currentTime + requestedLeaseDuration, FALSE>>

\* <<needUpdateLease, setAcquireAndLeaseTransitions>> for a record the caller holds
needUpdateOwnedLease(lease, currentTime, requestedLeaseDuration) ==
  IF IsNil(lease.renewTime) \/ IsNil(lease.leaseDurationSeconds)
    THEN <<TRUE, TRUE>>
    ELSE IF leaseDueTime(lease) < currentTime
      THEN <<TRUE, IsNil(lease.acquireTime)>>
      ELSE <<leaseDueTime(lease) < currentTime + requestedLeaseDuration, FALSE>>

\* isValidLease looking at the due time only, so that a renewTime ahead of the
\* clock does not matter
isValidLeaseRenewedAhead(lease, currentTime) ==
  IF IsNil(lease.renewTime) \/ IsNil(lease.leaseDurationSeconds)
    THEN FALSE
    ELSE ~(leaseDueTime(lease) < currentTime)

\* isValidLease looking at renewTime only, so that a lease never runs out
isValidLeaseNeverDue(lease, currentTime) ==
  IF IsNil(lease.renewTime) \/ IsNil(lease.leaseDurationSeconds)
    THEN FALSE
    ELSE Deref(lease.renewTime) <= currentTime

isValidLease(lease, currentTime) ==
  IF IsNil(lease.renewTime) \/ IsNil(lease.leaseDurationSeconds)
    THEN FALSE
    ELSE /\ ~(leaseDueTime(lease) < currentTime)
         /\ ~(Deref(lease.renewTime) > currentTime)

\* createLease starting the transition counter at 1
NewLeaseCountsCreation(holderIdentity, obj, microTimeNow, duration) ==
  [ ownerReferences |-> <<makeExpectedOwnerOfLease(obj)>>,
    holderIdentity |-> Some(holderIdentity),
    leaseDurationSeconds |-> Some(DurationSeconds(duration)),
    acquireTime |-> Some(microTimeNow),
    renewTime |-> Some(microTimeNow),
    leaseTransitions |-> Some(1) ]

\* the record createLease hands to Create
NewLease(holderIdentity, obj, microTimeNow, duration) ==
  [ ownerReferences |-> <<makeExpectedOwnerOfLease(obj)>>,
    holderIdentity |-> Some(holderIdentity),
    leaseDurationSeconds |-> Some(DurationSeconds(duration)),
    acquireTime |-> Some(microTimeNow),
    renewTime |-> Some(microTimeNow),
    leaseTransitions |-> Some(0) ]

\* the transition counter set to 1 whatever it was
NextLeaseTransitionsRestarts(lease) == Some(1)

\* leaseTransitions after a takeover or reset
NextLeaseTransitions(lease) ==
  IF IsNil(lease.leaseTransitions)
    THEN Some(1)
    ELSE Some(Int32Inc(Deref(lease.leaseTransitions)))

\* requestLease refreshing renewTime only together with acquireTime
RenewedLeaseKeepsRenewTime(lease, holderIdentity, obj, currentTime, leaseDuration, setAcquireAndLeaseTransitions) ==
  [ ownerReferences |-> <<makeExpectedOwnerOfLease(obj)>>,
    holderIdentity |-> Some(holderIdentity),
    leaseDurationSeconds |-> Some(DurationSeconds(leaseDuration)),
    acquireTime |->
      IF setAcquireAndLeaseTransitions THEN Some(currentTime) ELSE lease.acquireTime,
    renewTime |->
      IF setAcquireAndLeaseTransitions THEN Some(currentTime) ELSE lease.renewTime,
    leaseTransitions |->
      IF setAcquireAndLeaseTransitions
        THEN NextLeaseTransitions(lease)
        ELSE lease.leaseTransitions ]

\* requestLease stamping acquireTime and leaving renewTime as it found it
RenewedLeaseStampsAcquireOnly(lease, holderIdentity, obj, currentTime, leaseDuration, setAcquireAndLeaseTransitions) ==
  [ ownerReferences |-> <<makeExpectedOwnerOfLease(obj)>>,
    holderIdentity |-> Some(holderIdentity),
    leaseDurationSeconds |-> Some(DurationSeconds(leaseDuration)),
    acquireTime |->
      IF setAcquireAndLeaseTransitions THEN Some(currentTime) ELSE lease.acquireTime,
    renewTime |-> lease.renewTime,
    leaseTransitions |->
      IF setAcquireAndLeaseTransitions
        THEN NextLeaseTransitions(lease)
        ELSE lease.leaseTransitions ]

\* requestLease leaving the owner references of the record as it found them
RenewedLeaseKeepsOwner(lease, holderIdentity, obj, currentTime, leaseDuration, setAcquireAndLeaseTransitions) ==
  [ ownerReferences |-> lease.ownerReferences,
    holderIdentity |-> Some(holderIdentity),
    leaseDurationSeconds |-> Some(DurationSeconds(leaseDuration)),
    acquireTime |->
      IF setAcquireAndLeaseTransitions THEN Some(currentTime) ELSE lease.acquireTime,
    renewTime |-> Some(currentTime),
    leaseTransitions |->
      IF setAcquireAndLeaseTransitions
        THEN NextLeaseTransitions(lease)
        ELSE lease.leaseTransitions ]

\* the record requestLease hands to Update
RenewedLease(lease, holderIdentity, obj, currentTime, leaseDuration, setAcquireAndLeaseTransitions) ==
  [ ownerReferences |-> <<makeExpectedOwnerOfLease(obj)>>,
    holderIdentity |-> Some(holderIdentity),
    leaseDurationSeconds |-> Some(DurationSeconds(leaseDuration)),
    acquireTime |->
      IF setAcquireAndLeaseTransitions THEN Some(currentTime) ELSE lease.acquireTime,
    renewTime |-> Some(currentTime),
    leaseTransitions |->
      IF setAcquireAndLeaseTransitions
        THEN NextLeaseTransitions(lease)
        ELSE lease.leaseTransitions ]

\* a record that names no holder counted as the caller's own
IsOwnedByOrUnheld(lease, holderIdentity) ==
  IsNil(lease.holderIdentity) \/ Deref(lease.holderIdentity) = holderIdentity

\* the record is held by this manager
IsOwnedBy(lease, holderIdentity) ==
  ~IsNil(lease.holderIdentity) /\ Deref(lease.holderIdentity) = holderIdentity

\* what requestLease decides for a record it found:
\* "reject", "keep" (no write) or "update" with the record to write
RequestDecision(lease, holderIdentity, obj, currentTime, leaseDuration) ==
  IF IsOwnedBy(lease, holderIdentity)
    THEN LET need == needUpdateOwnedLease(lease, currentTime, leaseDuration)
         IN IF need[1]
              THEN [kind |-> "update",
                    lease |-> RenewedLease(lease, holderIdentity, obj, currentTime,
                                           leaseDuration, need[2])]
              ELSE [kind |-> "keep", lease |-> lease]
    ELSE IF isValidLease(lease, currentTime)
      THEN [kind |-> "reject", lease |-> lease]
      ELSE [kind |-> "update",
            lease |-> RenewedLease(lease, holderIdentity, obj, currentTime,
                                   leaseDuration, TRUE)]

-----------------------------------------------------------------------------
(* State *)

\* a manager between calls
IdleCall ==
  [pc |-> "idle", obj |-> Nil, duration |-> 0, lease |-> Nil, fresh |-> FALSE]

\* no call has just returned
NoCall ==
  [op |-> "none", holderIdentity |-> "", obj |-> Nil, duration |-> 0,
   currentTime |-> 0, read |-> Nil, before |-> Nil, after |-> Nil,
   write |-> "none", err |-> ErrNil]

\* records other parties may have left in the store before the managers start
SeedOwner == [apiVersion |-> "v1", kind |-> "Node", name |-> "@", uid |-> "#"]

SeedLeases ==
  [ ownerReferences : {<<SeedOwner>>},
    holderIdentity : {Nil, Some("miau"), Some("some-operator")},
    leaseDurationSeconds : {Nil, Some(1)},
    acquireTime : {Nil, Some(0)},
    renewTime : {Nil, Some(0), Some(2)},
    leaseTransitions : {Nil, Some(3)} ]

\* no PodDisruptionBudget and no pod, no check made, no event recorded
NoCluster == [pdbs |-> <<>>, pods |-> <<>>, fault |-> "none"]
NoVerdict == [fn |-> "none", node |-> Nil, allowed |-> FALSE, err |-> "nil"]
NoEvents == [events |-> <<>>, calls |-> <<>>]

InitCommon ==
  /\ cluster = NoCluster
  /\ verdict = NoVerdict
  /\ recorder = NoEvents
  /\ now = 0
  /\ call = [m \in Holders |-> IdleCall]
  /\ owned = [m \in Holders |-> [k \in Keys |-> Nil]]
  /\ last = NoCall

\* the store holds no record
InitEmpty ==
  /\ store = [k \in Keys |-> Nil]
  /\ InitCommon

\* the store holds no record, or one that another party wrote
Init ==
  /\ store \in [Keys -> {Nil} \cup {Some(l) : l \in SeedLeases}]
  /\ InitCommon

-----------------------------------------------------------------------------
(* The store: optimistic concurrency *)

\* a write to the record of key k makes every other manager's copy of it stale
Stale(c, m, k) ==
  [n \in Holders |->
     IF n # m /\ ~IsNil(c[n].obj) /\ LeaseName(Deref(c[n].obj)) = k
       THEN [c[n] EXCEPT !.fresh = FALSE]
       ELSE c[n]]

\* the outcome of Create: <<error, new value of the record>>
StoreCreate(current, lease) ==
  IF IsNil(current) THEN <<ErrNil, Some(lease)>> ELSE <<ErrAlreadyExists, current>>

\* the outcome of Update of a copy read earlier
StoreUpdate(current, fresh, lease) ==
  IF IsNil(current) THEN <<ErrNotFound, current>>
  ELSE IF ~fresh THEN <<ErrConflict, current>>
  ELSE <<ErrNil, Some(lease)>>

\* the outcome of Delete: by name, whatever the record holds now
StoreDelete(current) ==
  IF IsNil(current) THEN <<ErrNotFound, current>> ELSE <<ErrNil, Nil>>

-----------------------------------------------------------------------------
(* RequestLease *)

\* requestLease taking the already-exists of its Create for a success
RequestOutcomeExistsIsSuccess(c, holderIdentity, currentTime, current) ==
  IF IsNil(c.lease)
    THEN LET res == StoreCreate(current,
                      NewLease(holderIdentity, Deref(c.obj), currentTime, c.duration))
         IN [err |-> IF res[1] = ErrAlreadyExists THEN ErrNil ELSE res[1],
             after |-> res[2], write |-> "create"]
    ELSE LET dec == RequestDecision(Deref(c.lease), holderIdentity, Deref(c.obj),
                                    currentTime, c.duration)
         IN CASE dec.kind = "reject" ->
                   [err |-> ErrValidForeignLease, after |-> current, write |-> "none"]
              [] dec.kind = "keep" ->
                   [err |-> ErrNil, after |-> current, write |-> "none"]
              [] OTHER ->
                   LET res == StoreUpdate(current, c.fresh, dec.lease)
                   IN [err |-> res[1], after |-> res[2], write |-> "update"]

\* requestLease sending its record again, over whatever the store holds, when
\* its Update meets a version conflict
RequestOutcomeOverwritesOnConflict(c, holderIdentity, currentTime, current) ==
  IF IsNil(c.lease)
    THEN LET res == StoreCreate(current,
                      NewLease(holderIdentity, Deref(c.obj), currentTime, c.duration))
         IN [err |-> res[1], after |-> res[2], write |-> "create"]
    ELSE LET dec == RequestDecision(Deref(c.lease), holderIdentity, Deref(c.obj),
                                    currentTime, c.duration)
         IN CASE dec.kind = "reject" ->
                   [err |-> ErrValidForeignLease, after |-> current, write |-> "none"]
              [] dec.kind = "keep" ->
                   [err |-> ErrNil, after |-> current, write |-> "none"]
              [] OTHER ->
                   LET res == StoreUpdate(current, c.fresh, dec.lease)
                   IN IF res[1] = ErrConflict
                        THEN [err |-> ErrNil, after |-> Some(dec.lease), write |-> "update"]
                        ELSE [err |-> res[1], after |-> res[2], write |-> "update"]

\* what the call does once it has read the record and the clock:
\* the error it returns, the value of the record afterwards and the write it issued
RequestOutcome(c, holderIdentity, currentTime, current) ==
  IF IsNil(c.lease)
    THEN LET res == StoreCreate(current,
                      NewLease(holderIdentity, Deref(c.obj), currentTime, c.duration))
         IN [err |-> res[1], after |-> res[2], write |-> "create"]
    ELSE LET dec == RequestDecision(Deref(c.lease), holderIdentity, Deref(c.obj),
                                    currentTime, c.duration)
         IN CASE dec.kind = "reject" ->
                   [err |-> ErrValidForeignLease, after |-> current, write |-> "none"]
              [] dec.kind = "keep" ->
                   [err |-> ErrNil, after |-> current, write |-> "none"]
              [] OTHER ->
                   LET res == StoreUpdate(current, c.fresh, dec.lease)
                   IN [err |-> res[1], after |-> res[2], write |-> "update"]

\* the instant until which a manager owns the lease after a successful request
OwnedUntil(old, currentTime, duration) ==
  IF ~IsNil(old) /\ Deref(old) > currentTime + duration
    THEN old
    ELSE Some(currentTime + duration)

\* the call reads the record of the guarded object
RequestGet(m, obj, d) ==
  /\ call[m].pc = "idle"
  /\ call' = [call EXCEPT ![m] =
                [pc |-> "requestWrite", obj |-> Some(obj), duration |-> d,
                 lease |-> store[LeaseName(obj)], fresh |-> TRUE]]
  /\ last' = NoCall
  /\ UNCHANGED <<store, now, owned>>
  /\ UNCHANGED aside

\* the call reads the clock, then creates or updates the record or returns
\* without a write
RequestWrite(m) ==
  /\ call[m].pc = "requestWrite"
  /\ LET c == call[m]
         currentTime == now
         obj == Deref(c.obj)
         k == LeaseName(obj)
         out == RequestOutcome(c, m, currentTime, store[k])
     IN /\ store' = [store EXCEPT ![k] = out.after]
        /\ call' = IF out.write # "none" /\ out.err = ErrNil
                     THEN [Stale(call, m, k) EXCEPT ![m] = IdleCall]
                     ELSE [call EXCEPT ![m] = IdleCall]
        /\ owned' = IF out.err = ErrNil
                      THEN [owned EXCEPT ![m][k] =
                              OwnedUntil(owned[m][k], currentTime, c.duration)]
                      ELSE owned
        /\ last' = [op |-> "request", holderIdentity |-> m, obj |-> c.obj,
                    duration |-> c.duration, currentTime |-> currentTime,
                    read |-> c.lease, before |-> store[k], after |-> out.after,
                    write |-> out.write, err |-> out.err]
  /\ UNCHANGED now
  /\ UNCHANGED aside

-----------------------------------------------------------------------------
(* InvalidateLease *)

\* invalidateLease returning after its Get whatever it found
InvalidateReadOnly(current) == [done |-> TRUE, err |-> ErrNil]

\* invalidateLease returning the not-found of its Get as an error
InvalidateReadStrict(current) ==
  IF IsNil(current)
    THEN [done |-> TRUE, err |-> ErrNotFound]
    ELSE [done |-> FALSE, err |-> ErrNil]

\* what the call does with the outcome of its Get: not-found ends the call with
\* success, a record found goes on to Delete
InvalidateRead(current) ==
  IF IsNil(current)
    THEN [done |-> TRUE, err |-> ErrNil]
    ELSE [done |-> FALSE, err |-> ErrNil]

\* the call reads the record; when there is none it returns at once
InvalidateGet(m, obj) ==
  /\ call[m].pc = "idle"
  /\ LET k == LeaseName(obj)
         r == InvalidateRead(store[k])
     IN IF r.done
          THEN /\ call' = call
               /\ owned' = IF r.err = ErrNil THEN [owned EXCEPT ![m][k] = Nil] ELSE owned
               /\ last' = [op |-> "invalidate", holderIdentity |-> m, obj |-> Some(obj),
                           duration |-> 0, currentTime |-> now,
                           read |-> store[k], before |-> store[k], after |-> store[k],
                           write |-> "none", err |-> r.err]
          ELSE /\ call' = [call EXCEPT ![m] =
                             [pc |-> "invalidateDelete", obj |-> Some(obj), duration |-> 0,
                              lease |-> store[k], fresh |-> TRUE]]
               /\ owned' = owned
               /\ last' = NoCall
  /\ UNCHANGED <<store, now>>
  /\ UNCHANGED aside

\* what the call returns for the outcome of its Delete
InvalidateResult(err) == err

\* the call deletes the record it read
InvalidateDelete(m) ==
  /\ call[m].pc = "invalidateDelete"
  /\ LET c == call[m]
         obj == Deref(c.obj)
         k == LeaseName(obj)
         res == StoreDelete(store[k])
         err == InvalidateResult(res[1])
     IN /\ store' = [store EXCEPT ![k] = res[2]]
        /\ call' = IF res[1] = ErrNil
                     THEN [Stale(call, m, k) EXCEPT ![m] = IdleCall]
                     ELSE [call EXCEPT ![m] = IdleCall]
        /\ owned' = IF err = ErrNil THEN [owned EXCEPT ![m][k] = Nil] ELSE owned
        /\ last' = [op |-> "invalidate", holderIdentity |-> m, obj |-> c.obj,
                    duration |-> 0, currentTime |-> now,
                    read |-> c.lease, before |-> store[k], after |-> res[2],
                    write |-> "delete", err |-> err]
  /\ UNCHANGED now
  /\ UNCHANGED aside

-----------------------------------------------------------------------------
(* The clock *)

Tick ==
  /\ now < MaxTime
  /\ now' = now + 1
  /\ last' = NoCall
  /\ UNCHANGED <<store, call, owned>>
  /\ UNCHANGED aside

-----------------------------------------------------------------------------

\* no call is in progress
Quiet == \A m \in Holders : call[m].pc = "idle"

\* calls follow one another: a call starts when no other is in progress, and
\* the clock may advance between a call's read and its write
Next ==
  \/ \E m \in Holders, obj \in Objects, d \in Durations : Quiet /\ RequestGet(m, obj, d)
  \/ \E m \in Holders : RequestWrite(m)
  \/ \E m \in Holders, obj \in Objects : Quiet /\ InvalidateGet(m, obj)
  \/ \E m \in Holders : InvalidateDelete(m)
  \/ Tick

\* the guarded object and the duration the racing managers ask for
RaceObject == CHOOSE o \in Objects : o.kind = "Node"
RaceDurations == {MaxDuration}

\* calls of different managers overlap: any manager may start a call while
\* another is between its read and its write
NextConcurrent ==
  \/ \E m \in Holders, d \in RaceDurations : RequestGet(m, RaceObject, d)
  \/ \E m \in Holders : RequestWrite(m)
  \/ \E m \in Holders : InvalidateGet(m, RaceObject)
  \/ \E m \in Holders : InvalidateDelete(m)
  \/ Tick

\* calls one after another, on a store that may hold a record already
Spec == Init /\ [][Next]_vars

\* overlapping calls on a store that starts empty
SpecConcurrent == InitEmpty /\ [][NextConcurrent]_vars

\* calls one after another on a store that starts empty: every record is one
\* that a manager wrote for a guarded object
SpecEmpty == InitEmpty /\ [][Next]_vars

-----------------------------------------------------------------------------
(* InvalidateLease of the earlier manager: the record is kept and its fields
   are cleared *)

\* invalidateLease forgetting to clear leaseDurationSeconds
ClearedLeaseKeepsDuration(lease) ==
  [lease EXCEPT !.acquireTime = Nil,
                !.renewTime = Nil,
                !.leaseTransitions = Nil]

\* invalidateLease clearing holderIdentity along with the four fields
ClearedLeaseDropsHolder(lease) ==
  [lease EXCEPT !.holderIdentity = Nil,
                !.acquireTime = Nil,
                !.leaseDurationSeconds = Nil,
                !.renewTime = Nil,
                !.leaseTransitions = Nil]

\* the record as invalidateLease sends it back to the store
ClearedLease(lease) ==
  [lease EXCEPT !.acquireTime = Nil,
                !.leaseDurationSeconds = Nil,
                !.renewTime = Nil,
                !.leaseTransitions = Nil]

\* the call reads the record; when there is none it returns at once
InvalidateClearGet(m, obj) ==
  /\ call[m].pc = "idle"
  /\ LET k == LeaseName(obj)
     IN IF IsNil(store[k])
          THEN /\ call' = call
               /\ owned' = [owned EXCEPT ![m][k] = Nil]
               /\ last' = [op |-> "invalidateClear", holderIdentity |-> m,
                           obj |-> Some(obj), duration |-> 0, currentTime |-> now,
                           read |-> store[k], before |-> store[k], after |-> store[k],
                           write |-> "none", err |-> ErrNil]
          ELSE /\ call' = [call EXCEPT ![m] =
                             [pc |-> "invalidateClear", obj |-> Some(obj), duration |-> 0,
                              lease |-> store[k], fresh |-> TRUE]]
               /\ owned' = owned
               /\ last' = NoCall
  /\ UNCHANGED <<store, now>>
  /\ UNCHANGED aside

\* the call updates the record it read with the four fields cleared
InvalidateClearUpdate(m) ==
  /\ call[m].pc = "invalidateClear"
  /\ LET c == call[m]
         k == LeaseName(Deref(c.obj))
         res == StoreUpdate(store[k], c.fresh, ClearedLease(Deref(c.lease)))
     IN /\ store' = [store EXCEPT ![k] = res[2]]
        /\ call' = IF res[1] = ErrNil
                     THEN [Stale(call, m, k) EXCEPT ![m] = IdleCall]
                     ELSE [call EXCEPT ![m] = IdleCall]
        /\ owned' = IF res[1] = ErrNil THEN [owned EXCEPT ![m][k] = Nil] ELSE owned
        /\ last' = [op |-> "invalidateClear", holderIdentity |-> m, obj |-> c.obj,
                    duration |-> 0, currentTime |-> now,
                    read |-> c.lease, before |-> store[k], after |-> res[2],
                    write |-> "update", err |-> res[1]]
  /\ UNCHANGED now
  /\ UNCHANGED aside

\* records whose counter is in use, up to the top of the int32 range
SeedLeasesCounted ==
  [ ownerReferences : {<<SeedOwner>>},
    holderIdentity : {Some("miau"), Some("some-operator")},
    leaseDurationSeconds : {Nil, Some(1)},
    acquireTime : {Nil, Some(0)},
    renewTime : {Some(0)},
    leaseTransitions : {Some(3), Some(MaxInt32)} ]

InitCounted ==
  /\ store \in [Keys -> {Nil} \cup {Some(l) : l \in SeedLeasesCounted}]
  /\ InitCommon

\* calls one after another, with both ways of invalidating a lease
NextClearFields ==
  \/ \E m \in Holders, obj \in Objects, d \in Durations : Quiet /\ RequestGet(m, obj, d)
  \/ \E m \in Holders : RequestWrite(m)
  \/ \E m \in Holders, obj \in Objects : Quiet /\ InvalidateGet(m, obj)
  \/ \E m \in Holders : InvalidateDelete(m)
  \/ \E m \in Holders, obj \in Objects : Quiet /\ InvalidateClearGet(m, obj)
  \/ \E m \in Holders : InvalidateClearUpdate(m)
  \/ Tick

SpecClearFields == InitCounted /\ [][NextClearFields]_vars

\* the same calls on a store that starts empty
SpecClearFieldsEmpty == InitEmpty /\ [][NextClearFields]_vars

-----------------------------------------------------------------------------
(* Managers racing for a record that a third party has left behind *)

\* records of a holder that is none of the managers, which expire or lack
\* leaseDurationSeconds
SeedLeasesForeign ==
  [ ownerReferences : {<<SeedOwner>>},
    holderIdentity : {Some("miau")},
    leaseDurationSeconds : {Nil, Some(1)},
    acquireTime : {Some(0)},
    renewTime : {Some(0)},
    leaseTransitions : {Nil, Some(3)} ]

InitForeign ==
  /\ store \in [Keys -> {Some(l) : l \in SeedLeasesForeign}]
  /\ InitCommon

\* overlapping RequestLease calls only
NextRequests ==
  \/ \E m \in Holders, d \in RaceDurations : RequestGet(m, RaceObject, d)
  \/ \E m \in Holders : RequestWrite(m)
  \/ Tick

SpecTakeoverRace == InitForeign /\ [][NextRequests]_vars

-----------------------------------------------------------------------------
(* RequestLease on a store that may fail *)

\* requestLease logging the error of its write and returning success
FailedWriteIgnored(out, err, current) ==
  [err |-> ErrNil, after |-> current, write |-> out.write]

\* what the call does when its Create or Update fails: it returns the error
FailedWrite(out, err, current) ==
  [err |-> err, after |-> current, write |-> out.write]

\* the Get of the call fails with an error other than not-found: the call
\* returns it
RequestGetFails(m, obj, d, err) ==
  /\ call[m].pc = "idle"
  /\ last' = [op |-> "request", holderIdentity |-> m, obj |-> Some(obj),
              duration |-> d, currentTime |-> now,
              read |-> Nil, before |-> store[LeaseName(obj)],
              after |-> store[LeaseName(obj)], write |-> "none", err |-> err]
  /\ UNCHANGED <<store, now, call, owned>>
  /\ UNCHANGED aside

\* the Create or Update of the call fails before it reaches the record
RequestWriteFails(m, err) ==
  /\ call[m].pc = "requestWrite"
  /\ LET c == call[m]
         k == LeaseName(Deref(c.obj))
         out == RequestOutcome(c, m, now, store[k])
         res == FailedWrite(out, err, store[k])
     IN /\ out.write # "none"
        /\ call' = [call EXCEPT ![m] = IdleCall]
        /\ owned' = IF res.err = ErrNil
                      THEN [owned EXCEPT ![m][k] = OwnedUntil(owned[m][k], now, c.duration)]
                      ELSE owned
        /\ last' = [op |-> "request", holderIdentity |-> m, obj |-> c.obj,
                    duration |-> c.duration, currentTime |-> now,
                    read |-> c.lease, before |-> store[k], after |-> res.after,
                    write |-> res.write, err |-> res.err]
  /\ UNCHANGED <<store, now>>
  /\ UNCHANGED aside

\* overlapping calls, any store operation of RequestLease may fail
NextFaulty ==
  \/ \E m \in Holders, d \in RaceDurations : RequestGet(m, RaceObject, d)
  \/ \E m \in Holders, d \in RaceDurations, err \in StoreFaults :
       RequestGetFails(m, RaceObject, d, err)
  \/ \E m \in Holders : RequestWrite(m)
  \/ \E m \in Holders, err \in StoreFaults : RequestWriteFails(m, err)
  \/ \E m \in Holders : InvalidateGet(m, RaceObject)
  \/ \E m \in Holders : InvalidateDelete(m)
  \/ Tick

SpecFaulty == InitEmpty /\ [][NextFaulty]_vars

-----------------------------------------------------------------------------
(* A holder that stops calling, and another manager that keeps asking *)

LeaseHolder == "some-operator"
LeaseTaker == "different-owner"

\* the holder has acquired the lease at instant 0 and makes no further call
InitHeld ==
  /\ \E obj \in Objects, d \in Durations :
       store = [k \in Keys |->
                  IF k = LeaseName(obj) THEN Some(NewLease(LeaseHolder, obj, 0, d)) ELSE Nil]
  /\ InitCommon

\* a RequestLease call of the other manager starts
TakerRequests == \E obj \in Objects, d \in Durations : RequestGet(LeaseTaker, obj, d)

NextAbandoned ==
  \/ TakerRequests
  \/ RequestWrite(LeaseTaker)
  \/ Tick

\* the clock keeps advancing, the other manager keeps calling RequestLease and
\* each of its calls returns
SpecAbandoned ==
  /\ InitHeld
  /\ [][NextAbandoned]_vars
  /\ WF_vars(Tick)
  /\ WF_vars(TakerRequests)
  /\ WF_vars(RequestWrite(LeaseTaker))

-----------------------------------------------------------------------------
(* GetLease *)

\* GetLease answering the not-found of the store with no record and no error
GetLeaseNotFoundIsNil(current) ==
  [lease |-> current, err |-> ErrNil, after |-> current]

\* what the call returns for the record the store holds, and the record
\* afterwards: a read-through, not-found surfaced unchanged
GetLeaseOutcome(current) ==
  [lease |-> current,
   err |-> IF IsNil(current) THEN ErrNotFound ELSE ErrNil,
   after |-> current]

\* the call reads the record of the guarded object and returns it
GetLease(m, obj) ==
  /\ call[m].pc = "idle"
  /\ LET k == LeaseName(obj)
         out == GetLeaseOutcome(store[k])
     IN /\ store' = [store EXCEPT ![k] = out.after]
        /\ last' = [op |-> "get", holderIdentity |-> m, obj |-> Some(obj),
                    duration |-> 0, currentTime |-> now,
                    read |-> out.lease, before |-> store[k], after |-> out.after,
                    write |-> "none", err |-> out.err]
  /\ UNCHANGED <<now, call, owned>>
  /\ UNCHANGED aside

\* calls one after another, GetLease among them
NextGetLease ==
  \/ \E m \in Holders, obj \in Objects, d \in Durations : Quiet /\ RequestGet(m, obj, d)
  \/ \E m \in Holders : RequestWrite(m)
  \/ \E m \in Holders, obj \in Objects : Quiet /\ InvalidateGet(m, obj)
  \/ \E m \in Holders : InvalidateDelete(m)
  \/ \E m \in Holders, obj \in Objects : Quiet /\ GetLease(m, obj)
  \/ Tick

SpecGetLease == Init /\ [][NextGetLease]_vars

-----------------------------------------------------------------------------
(* The etcd disruption check *)

\* the lists of PodDisruptionBudgets and of guard pods have at most so many items
MaxPDBs == 2
MaxPods == 2

SeqsUpTo(S, n) == UNION {[1..k -> S] : k \in 0..n}

PodReady == "Ready"
PodScheduled == "PodScheduled"
ConditionTrue == "True"
ConditionFalse == "False"

\* the condition lists of a guard pod
ConditionLists ==
  { <<>>,
    <<[type |-> PodReady, status |-> ConditionTrue]>>,
    <<[type |-> PodReady, status |-> ConditionFalse]>>,
    <<[type |-> PodScheduled, status |-> ConditionFalse],
      [type |-> PodReady, status |-> ConditionTrue]>>,
    <<[type |-> PodScheduled, status |-> ConditionTrue],
      [type |-> PodReady, status |-> ConditionFalse]>> }

\* the nodes guard pods run on, and the nodes the check is asked about
GuardedNodes == {"control-plane-node-0", "control-plane-node-1"}
CheckedNodes == {Some(n) : n \in GuardedNodes \cup {"no-guard-node"}} \cup {Nil}

PDBs == [disruptionsAllowed : {0, 1}]
Pods == [nodeName : GuardedNodes, conditions : ConditionLists]

\* what the etcd namespace holds, and the call of the check that fails, if any:
\* the List of the PDBs, the conversion of the PDB's selector, the List of the pods
Clusters ==
  [ pdbs : SeqsUpTo(PDBs, MaxPDBs),
    pods : SeqsUpTo(Pods, MaxPods),
    fault : {"none", "pdbList", "selector", "podList"} ]

\* the index of the first pod of the list that runs on the node, 0 when none does
FirstPodOn(pods, nodeName) ==
  IF \E i \in 1..Len(pods) : pods[i].nodeName = nodeName
    THEN CHOOSE i \in 1..Len(pods) :
           /\ pods[i].nodeName = nodeName
           /\ \A j \in 1..(i - 1) : pods[j].nodeName # nodeName
    ELSE 0

\* the pod has a condition of type Ready with status False
IsDisrupted(pod) ==
  \E i \in 1..Len(pod.conditions) :
    /\ pod.conditions[i].type = PodReady
    /\ pod.conditions[i].status = ConditionFalse

\* the answer of the loop over the guard pods
GuardPodsAllow(pods, nodeName) ==
  LET i == FirstPodOn(pods, nodeName)
  IN IF i = 0 THEN FALSE ELSE IsDisrupted(pods[i])

Answer(allowed, err) == [allowed |-> allowed, err |-> err]

\* CanNodeDisruptEtcd deciding on the first PDB when it finds several
CanNodeDisruptEtcdTakesFirst(cl, node) ==
  IF cl.fault = "pdbList" THEN Answer(FALSE, "listError")
  ELSE IF Len(cl.pdbs) = 0 THEN Answer(FALSE, "nil")
  ELSE IF IsNil(node) THEN Answer(FALSE, "panic")
  ELSE IF cl.pdbs[1].disruptionsAllowed >= 1 THEN Answer(TRUE, "nil")
  ELSE IF cl.fault = "selector" THEN Answer(FALSE, "selectorError")
  ELSE IF cl.fault = "podList" THEN Answer(FALSE, "listError")
  ELSE Answer(GuardPodsAllow(cl.pods, Deref(node)), "nil")

\* CanNodeDisruptEtcd asking for more than one allowed disruption
CanNodeDisruptEtcdNeedsTwo(cl, node) ==
  IF cl.fault = "pdbList" THEN Answer(FALSE, "listError")
  ELSE IF Len(cl.pdbs) = 0 THEN Answer(FALSE, "nil")
  ELSE IF Len(cl.pdbs) > 1 THEN Answer(FALSE, "nil")
  ELSE IF IsNil(node) THEN Answer(FALSE, "panic")
  ELSE IF cl.pdbs[1].disruptionsAllowed > 1 THEN Answer(TRUE, "nil")
  ELSE IF cl.fault = "selector" THEN Answer(FALSE, "selectorError")
  ELSE IF cl.fault = "podList" THEN Answer(FALSE, "listError")
  ELSE Answer(GuardPodsAllow(cl.pods, Deref(node)), "nil")

\* CanNodeDisruptEtcd taking any condition with status False for a disruption
CanNodeDisruptEtcdAnyConditionFalse(cl, node) ==
  IF cl.fault = "pdbList" THEN Answer(FALSE, "listError")
  ELSE IF Len(cl.pdbs) = 0 THEN Answer(FALSE, "nil")
  ELSE IF Len(cl.pdbs) > 1 THEN Answer(FALSE, "nil")
  ELSE IF IsNil(node) THEN Answer(FALSE, "panic")
  ELSE IF cl.pdbs[1].disruptionsAllowed >= 1 THEN Answer(TRUE, "nil")
  ELSE IF cl.fault = "selector" THEN Answer(FALSE, "selectorError")
  ELSE IF cl.fault = "podList" THEN Answer(FALSE, "listError")
  ELSE LET i == FirstPodOn(cl.pods, Deref(node))
       IN Answer(i # 0 /\ \E j \in 1..Len(cl.pods[i].conditions) :
                            cl.pods[i].conditions[j].status = ConditionFalse,
                 "nil")

\* CanNodeDisruptEtcd: the answer and the error; a nil node is dereferenced
\* once exactly one PDB is found
CanNodeDisruptEtcd(cl, node) ==
  IF cl.fault = "pdbList" THEN Answer(FALSE, "listError")
  ELSE IF Len(cl.pdbs) = 0 THEN Answer(FALSE, "nil")
  ELSE IF Len(cl.pdbs) > 1 THEN Answer(FALSE, "nil")
  ELSE IF IsNil(node) THEN Answer(FALSE, "panic")
  ELSE IF cl.pdbs[1].disruptionsAllowed >= 1 THEN Answer(TRUE, "nil")
  ELSE IF cl.fault = "selector" THEN Answer(FALSE, "selectorError")
  ELSE IF cl.fault = "podList" THEN Answer(FALSE, "listError")
  ELSE Answer(GuardPodsAllow(cl.pods, Deref(node)), "nil")

\* isEtcdDisruptionAllowed: <<allowed, the PDB or nil, error>>
isEtcdDisruptionAllowed(cl) ==
  IF cl.fault = "pdbList" THEN <<FALSE, Nil, "listError">>
  ELSE IF Len(cl.pdbs) = 0 THEN <<FALSE, Nil, "nil">>
  ELSE IF Len(cl.pdbs) > 1 THEN <<FALSE, Nil, "nil">>
  ELSE IF cl.pdbs[1].disruptionsAllowed >= 1 THEN <<TRUE, Some(cl.pdbs[1]), "nil">>
  ELSE <<FALSE, Some(cl.pdbs[1]), "nil">>

\* IsControlPlaneNodeReady, the earlier form of the check
IsControlPlaneNodeReady(cl, node) ==
  LET r == isEtcdDisruptionAllowed(cl)
  IN IF IsNil(r[2]) THEN Answer(FALSE, r[3])
     ELSE IF IsNil(node) THEN Answer(FALSE, "panic")
     ELSE IF r[1] THEN Answer(TRUE, "nil")
     ELSE IF cl.fault = "selector" THEN Answer(FALSE, "selectorError")
     ELSE IF cl.fault = "podList" THEN Answer(FALSE, "listError")
     ELSE Answer(GuardPodsAllow(cl.pods, Deref(node)), "nil")

\* a caller asks whether the node may be disrupted
CheckCanNodeDisruptEtcd(node) ==
  /\ verdict' = [fn |-> "CanNodeDisruptEtcd", node |-> node,
                 allowed |-> CanNodeDisruptEtcd(cluster, node).allowed,
                 err |-> CanNodeDisruptEtcd(cluster, node).err]
  /\ UNCHANGED <<cluster, recorder, leaseVars>>

CheckIsControlPlaneNodeReady(node) ==
  /\ verdict' = [fn |-> "IsControlPlaneNodeReady", node |-> node,
                 allowed |-> IsControlPlaneNodeReady(cluster, node).allowed,
                 err |-> IsControlPlaneNodeReady(cluster, node).err]
  /\ UNCHANGED <<cluster, recorder, leaseVars>>

\* no lease and no call of the lease manager
InitLeaseIdle ==
  /\ store = [k \in Keys |-> Nil]
  /\ now = 0
  /\ call = [m \in Holders |-> IdleCall]
  /\ owned = [m \in Holders |-> [k \in Keys |-> Nil]]
  /\ last = NoCall

InitEtcd ==
  /\ cluster \in Clusters
  /\ verdict = NoVerdict
  /\ recorder = NoEvents
  /\ InitLeaseIdle

NextEtcd ==
  \/ \E node \in CheckedNodes : CheckCanNodeDisruptEtcd(node)
  \/ \E node \in CheckedNodes : CheckIsControlPlaneNodeReady(node)

SpecEtcd == InitEtcd /\ [][NextEtcd]_vars

-----------------------------------------------------------------------------
(* The event helpers *)

\* the recorder takes at most so many events
MaxEvents == 2

EventTypeNormal == "Normal"
EventTypeWarning == "Warning"

\* a string is a sequence of pieces of text; "%s" and "%d" are the verbs
Verbs == {"%s", "%d"}
customFmt == <<"[remediation] ", "%s">>

RemediationStartedEventReason == "RemediationStarted"
RemediationStoppedEventReason == "RemediationStopped"
RemediationFinishedEventReason == "RemediationFinished"
RemediationCannotStartEventReason == "RemediationCannotStart"
remediationStartedEventMessage == <<"Remediation started">>
remediationStoppedEventMessage ==
  <<"NHC added the timed-out annotation, remediation will be stopped">>
remediationFinishedEventMessage == <<"Remediation finished">>
remediationCannotStartTargetNodeFailedEventMessage ==
  <<"Could not get remediation target Node">>

\* the operands of a format
StringArg(text) == [kind |-> "string", text |-> text]
IntArg(text) == [kind |-> "int", text |-> text]

\* how fmt shows an operand that has no verb or the wrong one: type=value
TypeValue(arg) == <<IF arg.kind = "string" THEN "string=" ELSE "int=">> \o arg.text

\* fmt.Sprintf for one verb and its operand
Formatted(verb, arg) ==
  IF (verb = "%s" /\ arg.kind = "string") \/ (verb = "%d" /\ arg.kind = "int")
    THEN arg.text
    ELSE <<IF verb = "%s" THEN "%!s(" ELSE "%!d(">> \o TypeValue(arg) \o <<")">>

RECURSIVE ExtraOperands(_, _)
ExtraOperands(args, n) ==
  IF n > Len(args) THEN <<>>
  ELSE TypeValue(args[n])
         \o (IF n < Len(args) THEN <<", ">> ELSE <<>>)
         \o ExtraOperands(args, n + 1)

RECURSIVE SprintfFrom(_, _, _, _)
SprintfFrom(format, args, i, n) ==
  IF i > Len(format)
    THEN IF n <= Len(args)
           THEN <<"%!(EXTRA ">> \o ExtraOperands(args, n) \o <<")">>
           ELSE <<>>
    ELSE IF format[i] \in Verbs
      THEN (IF n > Len(args)
              THEN <<IF format[i] = "%s" THEN "%!s(MISSING)" ELSE "%!d(MISSING)">>
              ELSE Formatted(format[i], args[n]))
             \o SprintfFrom(format, args, i + 1, n + 1)
      ELSE <<format[i]>> \o SprintfFrom(format, args, i + 1, n)

\* fmt.Sprintf(format, args...)
Sprintf(format, args) == SprintfFrom(format, args, 1, 1)

\* the message handed to the recorder, with the message itself used as a format
EventMessageAsFormat(message) == Sprintf(<<"[remediation] ">> \o message, <<>>)

\* the message handed to the recorder: fmt.Sprintf(customFmt, message)
EventMessage(message) == Sprintf(customFmt, <<StringArg(message)>>)

\* the reasons, messages, operands and objects the helpers are called with
Reasons == {"thisReason"}
Messages ==
  { <<"normal event message">>,
    <<"message with some arguments: ", "%s", "%d">>,
    <<"%d", " nodes">> }
ArgLists ==
  { <<StringArg(<<"somevalue">>), IntArg(<<"1">>)>>,
    <<IntArg(<<"2">>)>>,
    <<StringArg(<<"somevalue">>)>> }
EventObjects == {Nil, Some("node")}

\* recorder.Event: the recorder takes the event after those it has
Event(object, eventtype, reason, message, helper, given) ==
  /\ Len(recorder.events) < MaxEvents
  /\ recorder' =
       [events |-> Append(recorder.events,
                     [object |-> object, type |-> eventtype,
                      reason |-> reason, message |-> message]),
        calls |-> Append(recorder.calls,
                    [helper |-> helper, object |-> object, reason |-> given.reason,
                     message |-> given.message, args |-> given.args])]
  /\ UNCHANGED <<cluster, verdict, leaseVars>>

Given(reason, message, args) == [reason |-> reason, message |-> message, args |-> args]

NormalEvent(object, reason, message) ==
  Event(object, EventTypeNormal, reason, EventMessage(message),
        "NormalEvent", Given(reason, message, <<>>))

NormalEventf(object, reason, messageFmt, a) ==
  Event(object, EventTypeNormal, reason, EventMessage(Sprintf(messageFmt, a)),
        "NormalEventf", Given(reason, messageFmt, a))

WarningEvent(object, reason, message) ==
  Event(object, EventTypeWarning, reason, EventMessage(message),
        "WarningEvent", Given(reason, message, <<>>))

WarningEventf(object, reason, messageFmt, a) ==
  Event(object, EventTypeWarning, reason, EventMessage(Sprintf(messageFmt, a)),
        "WarningEventf", Given(reason, messageFmt, a))

RemediationStarted(object) ==
  Event(object, EventTypeNormal, RemediationStartedEventReason,
        EventMessage(remediationStartedEventMessage),
        "RemediationStarted", Given("", <<>>, <<>>))

RemediationStoppedByNHC(object) ==
  Event(object, EventTypeNormal, RemediationStoppedEventReason,
        EventMessage(remediationStoppedEventMessage),
        "RemediationStoppedByNHC", Given("", <<>>, <<>>))

RemediationFinished(object) ==
  Event(object, EventTypeNormal, RemediationFinishedEventReason,
        EventMessage(remediationFinishedEventMessage),
        "RemediationFinished", Given("", <<>>, <<>>))

RemediationCannotStart(object, message) ==
  Event(object, EventTypeWarning, RemediationCannotStartEventReason,
        EventMessage(message),
        "RemediationCannotStart", Given("", message, <<>>))

GetTargetNodeFailed(object) ==
  Event(object, EventTypeWarning, RemediationCannotStartEventReason,
        EventMessage(remediationCannotStartTargetNodeFailedEventMessage),
        "GetTargetNodeFailed", Given("", <<>>, <<>>))

InitEvents ==
  /\ cluster = NoCluster
  /\ verdict = NoVerdict
  /\ recorder = NoEvents
  /\ InitLeaseIdle

NextEvents ==
  \/ \E o \in EventObjects, r \in Reasons, m \in Messages : NormalEvent(o, r, m)
  \/ \E o \in EventObjects, r \in Reasons, m \in Messages, a \in ArgLists :
       NormalEventf(o, r, m, a)
  \/ \E o \in EventObjects, r \in Reasons, m \in Messages : WarningEvent(o, r, m)
  \/ \E o \in EventObjects, r \in Reasons, m \in Messages, a \in ArgLists :
       WarningEventf(o, r, m, a)
  \/ \E o \in EventObjects : RemediationStarted(o)
  \/ \E o \in EventObjects : RemediationStoppedByNHC(o)
  \/ \E o \in EventObjects : RemediationFinished(o)
  \/ \E o \in EventObjects, m \in Messages : RemediationCannotStart(o, m)
  \/ \E o \in EventObjects : GetTargetNodeFailed(o)

SpecEvents == InitEvents /\ [][NextEvents]_vars

-----------------------------------------------------------------------------
(* Overlapping RequestLease calls on a store that starts empty *)

\* RequestLease calls of any requested duration, of any manager, overlapping
NextRequestsOnly ==
  \/ \E m \in Holders, d \in Durations : RequestGet(m, RaceObject, d)
  \/ \E m \in Holders : RequestWrite(m)
  \/ Tick

SpecRequests == InitEmpty /\ [][NextRequestsOnly]_vars

-----------------------------------------------------------------------------
(* Properties *)

\* the call that has just returned
Returned(op) == last.op = op
ReadLease == Deref(last.read)
WrittenLease == Deref(last.after)
CalledObject == Deref(last.obj)

\* manager m owns the lease of key k now: a RequestLease(d) of m succeeded at an
\* instant t with now <= t + d, and no InvalidateLease of m has succeeded since
Owns(m, k) == ~IsNil(owned[m][k]) /\ now <= Deref(owned[m][k])

\* C1: two managers with distinct holder identities never own the lease of the
\* same guarded object at the same instant, under any interleaving of their
\* RequestLease and InvalidateLease calls
MutualExclusion ==
  \A k \in Keys : \A m1, m2 \in Holders :
    m1 # m2 => ~(Owns(m1, k) /\ Owns(m2, k))

\* the record the call read is present and is not held by the caller
ReadNotOwn ==
  /\ ~IsNil(last.read)
  /\ ReadLease.holderIdentity # Some(last.holderIdentity)

\* the record the call read names a holder other than the caller
ReadForeign ==
  /\ ReadNotOwn
  /\ ReadLease.holderIdentity # Nil

\* the record the call read is held by the caller
ReadOwn ==
  /\ ~IsNil(last.read)
  /\ ReadLease.holderIdentity = Some(last.holderIdentity)

\* both timing fields of the record the call read are present
ReadTimed ==
  /\ ~IsNil(ReadLease.renewTime)
  /\ ~IsNil(ReadLease.leaseDurationSeconds)

\* renewTime + leaseDurationSeconds of the record the call read
ReadDueTime ==
  ReadLease.renewTime[1] + ReadLease.leaseDurationSeconds[1] * TicksPerSecond

\* the record the call read is valid at the call instant:
\* renewTime <= now <= renewTime + leaseDurationSeconds
ReadValid ==
  /\ ReadTimed
  /\ ReadLease.renewTime[1] <= last.currentTime
  /\ last.currentTime <= ReadDueTime

\* C2: RequestLease on a record that names another holder and is valid at the
\* call instant fails with AlreadyHeldError carrying the holder of the record,
\* and writes nothing: the record is unchanged
NoForeignTakeoverWhileValid ==
  (Returned("request") /\ ReadForeign /\ ReadValid) =>
    /\ last.err = AlreadyHeldError(ReadLease.holderIdentity)
    /\ last.write = "none"
    /\ last.after = last.before

\* a RequestLease has just returned success
RequestSucceeded == Returned("request") /\ last.err = ErrNil

\* the requested duration in whole seconds, the sub-second part dropped
RequestedSeconds == last.duration \div TicksPerSecond

\* the owner reference of the guarded object the call was made for
CalledOwner ==
  [apiVersion |-> CalledObject.version, kind |-> CalledObject.kind,
   name |-> CalledObject.name, uid |-> CalledObject.uid]

\* the record after the call names the caller, with the requested duration in
\* seconds and renewTime at the call instant
FreshlyHeld ==
  /\ ~IsNil(last.after)
  /\ WrittenLease.holderIdentity = Some(last.holderIdentity)
  /\ WrittenLease.leaseDurationSeconds = Some(RequestedSeconds)
  /\ WrittenLease.renewTime = Some(last.currentTime)

\* C3 as stated: whenever RequestLease returns success, on every success path,
\* the stored record names the caller as holder, has leaseDurationSeconds equal
\* to the requested duration and renewTime equal to the instant of the call
RequestSuccessPostcondition == RequestSucceeded => FreshlyHeld

\* C3 amended: whenever RequestLease returns success it has either written a
\* record that names the caller, with leaseDurationSeconds the requested
\* duration in whole seconds and renewTime the instant of the call, or written
\* nothing because the record it read names the caller already and its dueTime
\* is not before the call instant plus the requested duration
RequestSuccessPostconditionAmended ==
  RequestSucceeded =>
    IF last.write = "none"
      THEN /\ ReadOwn
           /\ ReadTimed
           /\ ReadDueTime >= last.currentTime + last.duration
           /\ last.after = last.before
      ELSE FreshlyHeld

\* C3 is exercised on both kinds of success: a write, and the return without one
RequestSuccessReached ==
  /\ RequestSucceeded
  /\ last.write = "none"
  /\ ReadLease.renewTime # Some(last.currentTime)

\* C4: RequestLease on a guarded object with no record creates the record with
\* holderIdentity the caller, acquireTime = renewTime = now, leaseDurationSeconds
\* the requested duration, leaseTransitions 0 and one owner reference built
\* from the guarded object
CreateOnAbsence ==
  (Returned("request") /\ IsNil(last.read) /\ IsNil(last.before)) =>
    /\ last.err = ErrNil
    /\ last.write = "create"
    /\ last.after =
         Some([ ownerReferences |-> <<CalledOwner>>,
                holderIdentity |-> Some(last.holderIdentity),
                leaseDurationSeconds |-> Some(RequestedSeconds),
                acquireTime |-> Some(last.currentTime),
                renewTime |-> Some(last.currentTime),
                leaseTransitions |-> Some(0) ])

\* a record has just been created, some time after the clock started
CreateOnAbsenceReached ==
  /\ RequestSucceeded
  /\ IsNil(last.read)
  /\ last.write = "create"
  /\ last.currentTime > 0
  /\ ~IsNil(store[LeaseName(CalledObject)])

\* C5: RequestLease on a record that is not the caller's and is not valid at
\* the call instant succeeds and writes holderIdentity the caller, acquireTime
\* = renewTime = now, leaseDurationSeconds the requested duration, the owner
\* reference of the caller's guarded object, and leaseTransitions one more
\* than before, a missing counter counting as 0
TakeoverOnExpiry ==
  (Returned("request") /\ ReadNotOwn /\ ~ReadValid /\ last.before = last.read) =>
    /\ last.err = ErrNil
    /\ last.write = "update"
    /\ last.after =
         Some([ ownerReferences |-> <<CalledOwner>>,
                holderIdentity |-> Some(last.holderIdentity),
                leaseDurationSeconds |-> Some(RequestedSeconds),
                acquireTime |-> Some(last.currentTime),
                renewTime |-> Some(last.currentTime),
                leaseTransitions |->
                  IF IsNil(ReadLease.leaseTransitions)
                    THEN Some(1)
                    ELSE Some(ReadLease.leaseTransitions[1] + 1) ])

\* an expired record of another holder, with leaseTransitions 3, has just been
\* taken over
TakeoverOnExpiryReached ==
  /\ RequestSucceeded
  /\ ReadForeign
  /\ ReadTimed
  /\ ReadDueTime < last.currentTime
  /\ ReadLease.leaseTransitions = Some(3)
  /\ WrittenLease.leaseTransitions = Some(4)
  /\ WrittenLease.holderIdentity = Some(last.holderIdentity)

\* C6: InvalidateLease by a manager other than the holder of the record fails
\* with AlreadyHeldError naming the holder and leaves the record in the store
\* with every field unchanged
ReleaseRejection ==
  (Returned("invalidate") /\ ReadForeign) =>
    /\ last.err = AlreadyHeldError(ReadLease.holderIdentity)
    /\ ~IsNil(last.after)
    /\ last.after = last.before

\* C7: InvalidateLease by the holder of the record removes the record and
\* returns success, and a read of the record afterwards finds none
ReleaseByHolder ==
  (Returned("invalidate") /\ ReadOwn) =>
    /\ last.err = ErrNil
    /\ last.write = "delete"
    /\ IsNil(last.after)
    /\ IsNil(store[LeaseName(CalledObject)])

\* the holder has just released a record that was there
ReleaseByHolderReached ==
  /\ Returned("invalidate")
  /\ ReadOwn
  /\ ~IsNil(last.before)
  /\ IsNil(store[LeaseName(CalledObject)])

\* C8: InvalidateLease on a guarded object with no record returns success,
\* writes nothing and creates no record, so the store is as it was and a
\* further call finds it the same
IdempotentRelease ==
  (Returned("invalidate") /\ IsNil(last.read)) =>
    /\ last.err = ErrNil
    /\ last.write = "none"
    /\ last.after = last.before
    /\ IsNil(store[LeaseName(CalledObject)])

\* InvalidateLease has just returned from a store that held no record
IdempotentReleaseReached ==
  /\ Returned("invalidate")
  /\ IsNil(last.read)
  /\ last.err = ErrNil
  /\ now > 0

\* C9: RequestLease on a record the caller holds, with both timing fields
\* present and dueTime not before now + the requested duration, returns success
\* without a write, and the record is the same in every field
NoOpWhenComfortablyValid ==
  (Returned("request") /\ ReadOwn /\ ReadTimed
     /\ ~(ReadDueTime < last.currentTime + last.duration)) =>
    /\ last.err = ErrNil
    /\ last.write = "none"
    /\ last.after = last.before
    /\ last.after = last.read

\* the caller's record has just been left alone at the very edge of the window
NoOpWhenComfortablyValidReached ==
  /\ Returned("request")
  /\ ReadOwn
  /\ ReadTimed
  /\ last.duration > 0
  /\ ReadDueTime = last.currentTime + last.duration
  /\ last.write = "none"

\* C10: RequestLease on a record the caller holds with now <= dueTime < now +
\* the requested duration sets renewTime = now and leaseDurationSeconds to the
\* requested duration, and leaves acquireTime and leaseTransitions as they
\* were, absent included
ProactiveRenewal ==
  (Returned("request") /\ ReadOwn /\ ReadTimed
     /\ last.currentTime <= ReadDueTime
     /\ ReadDueTime < last.currentTime + last.duration
     /\ last.before = last.read) =>
    /\ last.err = ErrNil
    /\ last.write = "update"
    /\ ~IsNil(last.after)
    /\ WrittenLease.renewTime = Some(last.currentTime)
    /\ WrittenLease.leaseDurationSeconds = Some(RequestedSeconds)
    /\ WrittenLease.acquireTime = ReadLease.acquireTime
    /\ WrittenLease.leaseTransitions = ReadLease.leaseTransitions

\* a record of the caller with no acquireTime has just been renewed ahead of
\* its expiry
ProactiveRenewalReached ==
  /\ RequestSucceeded
  /\ ReadOwn
  /\ ReadTimed
  /\ last.currentTime <= ReadDueTime
  /\ ReadDueTime < last.currentTime + last.duration
  /\ IsNil(ReadLease.acquireTime)
  /\ last.write = "update"
  /\ WrittenLease.renewTime # ReadLease.renewTime

\* the counter of the record the call read, incremented, absent counting as 0
ReadTransitionsPlusOne ==
  IF IsNil(ReadLease.leaseTransitions)
    THEN Some(1)
    ELSE Some(ReadLease.leaseTransitions[1] + 1)

\* the call has rewritten renewTime and leaseDurationSeconds of the record
Renewed ==
  /\ last.err = ErrNil
  /\ last.write = "update"
  /\ ~IsNil(last.after)
  /\ WrittenLease.holderIdentity = Some(last.holderIdentity)
  /\ WrittenLease.renewTime = Some(last.currentTime)
  /\ WrittenLease.leaseDurationSeconds = Some(RequestedSeconds)

\* C11: RequestLease on a record the caller holds, with dueTime before now and
\* acquireTime present, sets renewTime = now and leaseDurationSeconds to the
\* requested duration, keeps acquireTime and leaves leaseTransitions unchanged
ExpiredSelfRenewalKeepsAcquireTime ==
  (Returned("request") /\ ReadOwn /\ ReadTimed
     /\ ReadDueTime < last.currentTime
     /\ ~IsNil(ReadLease.acquireTime)
     /\ last.before = last.read) =>
    /\ Renewed
    /\ WrittenLease.acquireTime = ReadLease.acquireTime
    /\ WrittenLease.leaseTransitions = ReadLease.leaseTransitions

\* the holder has just renewed its expired record, whose acquireTime is older
\* than the renewal
ExpiredSelfRenewalKeepsAcquireTimeReached ==
  /\ RequestSucceeded
  /\ ReadOwn
  /\ ReadTimed
  /\ ReadDueTime < last.currentTime
  /\ ReadLease.acquireTime = Some(0)
  /\ WrittenLease.acquireTime = Some(0)
  /\ WrittenLease.renewTime = Some(last.currentTime)

\* C12: RequestLease on a record the caller holds whose renewTime or
\* leaseDurationSeconds is absent sets acquireTime = renewTime = now and
\* leaseDurationSeconds to the requested duration and increments
\* leaseTransitions by one, a missing counter counting as 0, whatever acquireTime
\* was before
SelfResetWhenFieldsMissing ==
  (Returned("request") /\ ReadOwn /\ ~ReadTimed /\ last.before = last.read) =>
    /\ Renewed
    /\ WrittenLease.acquireTime = Some(last.currentTime)
    /\ WrittenLease.leaseTransitions = ReadTransitionsPlusOne

\* the holder has just reset a record that had no renewTime but an acquireTime
\* and a counter of 3
SelfResetWhenFieldsMissingReached ==
  /\ RequestSucceeded
  /\ ReadOwn
  /\ IsNil(ReadLease.renewTime)
  /\ ~IsNil(ReadLease.acquireTime)
  /\ last.currentTime > 0
  /\ ReadLease.leaseTransitions = Some(3)
  /\ WrittenLease.leaseTransitions = Some(4)
  /\ WrittenLease.acquireTime = Some(last.currentTime)

\* C13: RequestLease on a record the caller holds, with dueTime before now and
\* acquireTime absent, sets acquireTime = renewTime = now and
\* leaseDurationSeconds to the requested duration and increments
\* leaseTransitions, an absent counter becoming 1
ExpiredSelfRenewalSetsAcquireTime ==
  (Returned("request") /\ ReadOwn /\ ReadTimed
     /\ ReadDueTime < last.currentTime
     /\ IsNil(ReadLease.acquireTime)
     /\ last.before = last.read) =>
    /\ Renewed
    /\ WrittenLease.acquireTime = Some(last.currentTime)
    /\ WrittenLease.leaseTransitions = ReadTransitionsPlusOne

\* the holder has just renewed its expired record that had neither acquireTime
\* nor counter
ExpiredSelfRenewalSetsAcquireTimeReached ==
  /\ RequestSucceeded
  /\ ReadOwn
  /\ ReadTimed
  /\ ReadDueTime < last.currentTime
  /\ IsNil(ReadLease.acquireTime)
  /\ IsNil(ReadLease.leaseTransitions)
  /\ WrittenLease.leaseTransitions = Some(1)
  /\ WrittenLease.acquireTime = Some(last.currentTime)

\* the call has replaced the stored record by another one
Rewrote ==
  /\ Returned("request")
  /\ last.err = ErrNil
  /\ last.write = "update"
  /\ ~IsNil(last.before)
  /\ ~IsNil(last.after)

\* the step changed holderIdentity
HolderChanged == Deref(last.before).holderIdentity # WrittenLease.holderIdentity

\* the step increased leaseTransitions by exactly one, absent counting as 0
TransitionsIncremented ==
  WrittenLease.leaseTransitions =
    IF IsNil(Deref(last.before).leaseTransitions)
      THEN Some(1)
      ELSE Some(Deref(last.before).leaseTransitions[1] + 1)

\* the step left leaseTransitions as it was
TransitionsKept ==
  WrittenLease.leaseTransitions = Deref(last.before).leaseTransitions

\* the holder resets its own record: timing fields missing, or expired with no
\* acquireTime
SelfReset ==
  /\ ReadOwn
  /\ \/ ~ReadTimed
     \/ ReadDueTime < last.currentTime /\ IsNil(ReadLease.acquireTime)

\* C14 as stated: leaseTransitions increases by exactly one in a step exactly
\* when the step changes holderIdentity, and a step that keeps the holder never
\* changes it
TransitionsOnlyOnHolderChange ==
  Rewrote =>
    /\ TransitionsIncremented <=> HolderChanged
    /\ ~HolderChanged => TransitionsKept

\* C14: leaseTransitions increases by exactly one in a RequestLease step exactly
\* when the step sets acquireTime anew, which is a takeover of a record the
\* caller does not hold or a reset by the holder of its own record (renewTime or
\* leaseDurationSeconds missing, or expired with acquireTime absent); every
\* other renewal by the holder leaves the counter unchanged
TransitionsOnAcquisition ==
  Rewrote =>
    /\ TransitionsIncremented <=> (HolderChanged \/ SelfReset)
    /\ ~(HolderChanged \/ SelfReset) => TransitionsKept
    /\ TransitionsIncremented => WrittenLease.acquireTime = Some(last.currentTime)

\* a holder has just reset its own record and the counter went from 3 to 4 with
\* the holder unchanged
TransitionsOnAcquisitionReached ==
  /\ Rewrote
  /\ ~HolderChanged
  /\ SelfReset
  /\ Deref(last.before).leaseTransitions = Some(3)
  /\ WrittenLease.leaseTransitions = Some(4)

\* C15: no operation, neither a RequestLease renewal or takeover nor an
\* InvalidateLease that clears the fields, makes leaseTransitions of a record
\* smaller or makes a present counter absent, up to the top of the int32 range
TransitionsMonotonic ==
  (last.op \in {"request", "invalidateClear"}
     /\ ~IsNil(last.before) /\ ~IsNil(last.after)
     /\ ~IsNil(Deref(last.before).leaseTransitions)) =>
    /\ ~IsNil(WrittenLease.leaseTransitions)
    /\ WrittenLease.leaseTransitions[1] >= Deref(last.before).leaseTransitions[1]

\* C16: of the RequestLease calls that found no record, the one whose Create
\* reaches the store first succeeds and the record names it with
\* leaseTransitions 0; every other one returns the store's already-exists error
\* and leaves the winner's record as it is
ConcurrentCreate ==
  (Returned("request") /\ IsNil(last.read)) =>
    /\ last.write = "create"
    /\ IF IsNil(last.before)
         THEN /\ last.err = ErrNil
              /\ ~IsNil(last.after)
              /\ WrittenLease.holderIdentity = Some(last.holderIdentity)
              /\ WrittenLease.leaseTransitions = Some(0)
         ELSE /\ last.err = ErrAlreadyExists
              /\ last.after = last.before

\* a call that found no record has just lost the race: the record names the
\* other manager, with leaseTransitions 0
ConcurrentCreateReached ==
  /\ Returned("request")
  /\ IsNil(last.read)
  /\ ~IsNil(last.before)
  /\ Deref(last.before).holderIdentity # Some(last.holderIdentity)
  /\ Deref(last.before).leaseTransitions = Some(0)
  /\ last.err = ErrAlreadyExists
  /\ last.after = last.before

\* C17: of the RequestLease calls of distinct managers that read the same
\* expired record of another holder, only one has its Update applied: a call
\* succeeds only on the record it read, the record then names it and
\* leaseTransitions is the read one plus 1; the first Update on a third party's
\* record succeeds; every other call returns the store's conflict error and
\* leaves the record as the winner wrote it
ConcurrentTakeover ==
  (Returned("request") /\ ReadNotOwn /\ ~ReadValid) =>
    /\ last.write = "update"
    /\ IF last.err = ErrNil
         THEN /\ last.before = last.read
              /\ ~IsNil(last.after)
              /\ WrittenLease.holderIdentity = Some(last.holderIdentity)
              /\ WrittenLease.leaseTransitions = ReadTransitionsPlusOne
         ELSE /\ last.err = ErrConflict
              /\ last.after = last.before
    /\ (last.before = last.read
          /\ ReadLease.holderIdentity \notin {Some(h) : h \in Holders}) =>
         last.err = ErrNil

\* a call that read the expired record of "miau" has just lost the race: the
\* record names the other manager, its counter is the read one plus 1, and the
\* call returned the conflict
ConcurrentTakeoverReached ==
  /\ Returned("request")
  /\ ReadForeign
  /\ ~ReadValid
  /\ ReadLease.holderIdentity = Some("miau")
  /\ ReadLease.leaseTransitions = Some(3)
  /\ last.err = ErrConflict
  /\ ~IsNil(last.before)
  /\ Deref(last.before).holderIdentity \in {Some(h) : h \in Holders \ {last.holderIdentity}}
  /\ Deref(last.before).leaseTransitions = Some(4)
  /\ last.after = last.before

\* C18: a RequestLease call reads once and writes at most once, a Create only
\* when it found no record and an Update only of the record it found; an error
\* of the store, from the read (other than not-found) or from the write, is
\* returned as it is and the call changes nothing more; a write that the store
\* rejects is not tried again
OneRoundTrip ==
  Returned("request") =>
    /\ last.write \in {"none", "create", "update"}
    /\ last.write = "create" => IsNil(last.read)
    /\ last.write = "update" => ~IsNil(last.read)
    /\ last.write = "none" => last.after = last.before
    /\ last.err # ErrNil => last.after = last.before
    /\ last.err \notin {ErrNil, ErrValidForeignLease} => last.err \in StoreErrors
    /\ (last.write # "none" /\ last.err = ErrNil) => FreshlyHeld
    /\ (last.write = "none" /\ IsNil(last.read)) => last.err \in StoreFaults
    /\ (last.write = "create" /\ ~IsNil(last.before)) =>
         last.err \in {ErrAlreadyExists} \cup StoreFaults
    /\ (last.write = "update" /\ IsNil(last.before)) =>
         last.err \in {ErrNotFound} \cup StoreFaults
    /\ (last.write = "update" /\ ~IsNil(last.before) /\ last.before # last.read) =>
         last.err \in {ErrConflict} \cup StoreFaults

\* the Update of a call has just failed in the store although the record was
\* still the one the call read: the call returned the store's error and the
\* record is unchanged
OneRoundTripReached ==
  /\ Returned("request")
  /\ last.write = "update"
  /\ ~IsNil(last.read)
  /\ last.before = last.read
  /\ last.err = ErrInternal
  /\ last.after = last.before

\* C19: when the record disappears between the Get and the Delete of an
\* InvalidateLease call, the not-found of the Delete is absorbed and the call
\* returns success
DeleteNotFoundAbsorbed ==
  (Returned("invalidate") /\ last.write = "delete" /\ IsNil(last.before)) =>
    last.err = ErrNil

\* C20: the record of a guarded object is determined by its kind and name, so
\* for a Node and a Pod both named "miau" a call made for one of them never
\* finds, changes or deletes the record made for the other: the record a call
\* reads carries the owner reference of the object the call was made for
OneRecordPerObject ==
  (last.op \in {"request", "invalidate"} /\ ~IsNil(last.read)) =>
    ReadLease.ownerReferences = <<CalledOwner>>

\* the record of some guarded object names manager m as holder
HeldBy(m) == \E k \in Keys : ~IsNil(store[k]) /\ Deref(store[k]).holderIdentity = Some(m)

\* a RequestLease of the other manager has just succeeded and the record names it
TakerAcquired ==
  /\ RequestSucceeded
  /\ last.holderIdentity = LeaseTaker
  /\ HeldBy(LeaseTaker)

\* C21: when the holder of a lease makes no further call and the clock keeps
\* advancing, a RequestLease of another manager eventually succeeds and makes
\* that manager the holder
ExpiredEventuallyAcquirable == HeldBy(LeaseHolder) ~> TakerAcquired

\* the other manager has just taken over the holder's record after its dueTime
ExpiredEventuallyAcquirableReached ==
  /\ TakerAcquired
  /\ ReadLease.holderIdentity = Some(LeaseHolder)
  /\ ReadTimed
  /\ ReadDueTime < last.currentTime
  /\ last.write = "update"
  /\ WrittenLease.leaseTransitions = Some(1)

\* C22: GetLease returns the stored record of the guarded object, or the
\* store's not-found error when there is none, and the store holds the same
\* record after the call as before it
GetLeaseIsPureRead ==
  Returned("get") =>
    /\ last.write = "none"
    /\ last.after = last.before
    /\ store[LeaseName(CalledObject)] = last.before
    /\ last.read = last.before
    /\ IF IsNil(last.before) THEN last.err = ErrNotFound ELSE last.err = ErrNil

\* GetLease has just returned the record a manager wrote for the guarded object
GetLeaseIsPureReadReached ==
  /\ Returned("get")
  /\ last.err = ErrNil
  /\ ~IsNil(last.read)
  /\ ReadLease.ownerReferences = <<CalledOwner>>
  /\ ReadLease.holderIdentity \in {Some(h) : h \in Holders}
  /\ store[LeaseName(CalledObject)] = last.read

\* GetLease has just found no record
GetLeaseNotFoundReached ==
  /\ Returned("get")
  /\ IsNil(last.read)
  /\ last.err = ErrNotFound

\* C23: in every record reachable by the managers' operations from an empty
\* store, renewTime and leaseDurationSeconds are both present or both absent
PairedTimingFields ==
  \A k \in Keys :
    ~IsNil(store[k]) =>
      (IsNil(Deref(store[k]).renewTime) <=> IsNil(Deref(store[k]).leaseDurationSeconds))

\* an InvalidateLease that clears the fields has just taken both timing fields
\* off a record that had them
PairedTimingFieldsReached ==
  /\ Returned("invalidateClear")
  /\ last.err = ErrNil
  /\ last.write = "update"
  /\ ~IsNil(last.before)
  /\ ~IsNil(Deref(last.before).renewTime)
  /\ ~IsNil(Deref(last.before).leaseDurationSeconds)
  /\ ~IsNil(last.after)
  /\ IsNil(WrittenLease.renewTime)
  /\ IsNil(WrittenLease.leaseDurationSeconds)
  /\ store[LeaseName(CalledObject)] = last.after

\* the call has created or updated the record
RequestWrote ==
  /\ Returned("request")
  /\ last.err = ErrNil
  /\ last.write \in {"create", "update"}

Checked == verdict.fn # "none"

\* the check found exactly one PDB
OnePDB == cluster.fault # "pdbList" /\ Len(cluster.pdbs) = 1

\* the one PDB allows no disruption and the check could list the guard pods
NoBudget ==
  /\ OnePDB
  /\ cluster.pdbs[1].disruptionsAllowed = 0
  /\ cluster.fault = "none"

\* the node the check was asked about has a guard pod
HasGuardPod == ~IsNil(verdict.node) /\ FirstPodOn(cluster.pods, Deref(verdict.node)) # 0
GuardPod == cluster.pods[FirstPodOn(cluster.pods, Deref(verdict.node))]

\* the guard pod has a Ready condition with the status
GuardReady(status) ==
  \E i \in 1..Len(GuardPod.conditions) :
    GuardPod.conditions[i] = [type |-> PodReady, status |-> status]

\* C25: when the List of the PDBs of the etcd namespace returns no PDB or more
\* than one, the check answers false with no error, for every node and for a
\* nil node
UnverifiableQuorum ==
  (Checked /\ cluster.fault # "pdbList" /\ Len(cluster.pdbs) # 1) =>
    /\ verdict.allowed = FALSE
    /\ verdict.err = "nil"

\* the check has just refused a nil node because it found two PDBs
UnverifiableQuorumReached ==
  /\ Checked
  /\ cluster.fault = "none"
  /\ Len(cluster.pdbs) = 2
  /\ cluster.pdbs[1].disruptionsAllowed = 1
  /\ IsNil(verdict.node)
  /\ verdict.allowed = FALSE
  /\ verdict.err = "nil"

\* C26: when there is exactly one PDB and its DisruptionsAllowed is at least 1,
\* the check answers true with no error for every node, with or without a
\* guard pod and whatever the conditions of the guard pods are
BudgetAvailable ==
  (Checked /\ OnePDB /\ cluster.pdbs[1].disruptionsAllowed >= 1
     /\ ~IsNil(verdict.node)) =>
    /\ verdict.allowed = TRUE
    /\ verdict.err = "nil"

\* the check has just allowed a node whose guard pod is Ready, the budget
\* being 1
BudgetAvailableReached ==
  /\ Checked
  /\ OnePDB
  /\ cluster.pdbs[1].disruptionsAllowed = 1
  /\ HasGuardPod
  /\ GuardReady(ConditionTrue)
  /\ ~GuardReady(ConditionFalse)
  /\ verdict.allowed = TRUE

\* C27: when there is exactly one PDB and its DisruptionsAllowed is 0, the
\* check answers true for a node whose guard pod has Ready = False and false
\* for a node whose guard pod has Ready = True
NoBudgetFollowsGuardPod ==
  (Checked /\ NoBudget /\ HasGuardPod) =>
    /\ verdict.err = "nil"
    /\ GuardReady(ConditionFalse) => verdict.allowed = TRUE
    /\ GuardReady(ConditionTrue) => verdict.allowed = FALSE

\* with no budget the check has just allowed a node whose guard pod is
\* scheduled but not Ready, a second node's guard pod being Ready
NoBudgetFollowsGuardPodReached ==
  /\ Checked
  /\ NoBudget
  /\ HasGuardPod
  /\ GuardPod.conditions = <<[type |-> PodScheduled, status |-> ConditionTrue],
                             [type |-> PodReady, status |-> ConditionFalse]>>
  /\ Len(cluster.pods) = 2
  /\ cluster.pods[1].nodeName # cluster.pods[2].nodeName
  /\ verdict.allowed = TRUE

\* C28: when there is exactly one PDB and its DisruptionsAllowed is 0, the
\* check answers true for a node that has no guard pod
NoBudgetAllowsUnguardedNode ==
  (Checked /\ NoBudget /\ ~IsNil(verdict.node) /\ ~HasGuardPod) =>
    verdict.allowed = TRUE

\* C29: when there is exactly one PDB and its DisruptionsAllowed is 0, the
\* check answers true for a node whose guard pod has no condition at all
NoBudgetAllowsGuardWithoutReady ==
  (Checked /\ NoBudget /\ HasGuardPod /\ GuardPod.conditions = <<>>) =>
    verdict.allowed = TRUE

\* the event the claim and the tests expect for a call of a helper
ExpectedType(helper) ==
  IF helper \in {"NormalEvent", "NormalEventf", "RemediationStarted",
                 "RemediationStoppedByNHC", "RemediationFinished"}
    THEN "Normal"
    ELSE "Warning"

ExpectedReason(c) ==
  CASE c.helper = "RemediationStarted" -> "RemediationStarted"
    [] c.helper = "RemediationStoppedByNHC" -> "RemediationStopped"
    [] c.helper = "RemediationFinished" -> "RemediationFinished"
    [] c.helper \in {"RemediationCannotStart", "GetTargetNodeFailed"} ->
         "RemediationCannotStart"
    [] OTHER -> c.reason

ExpectedText(c) ==
  CASE c.helper = "RemediationStarted" -> <<"Remediation started">>
    [] c.helper = "RemediationStoppedByNHC" ->
         <<"NHC added the timed-out annotation, remediation will be stopped">>
    [] c.helper = "RemediationFinished" -> <<"Remediation finished">>
    [] c.helper = "GetTargetNodeFailed" -> <<"Could not get remediation target Node">>
    [] c.helper \in {"NormalEventf", "WarningEventf"} -> Sprintf(c.message, c.args)
    [] OTHER -> c.message

ReleaseSafeUnderTakeover ==
  (Returned("invalidate") /\ ReadOwn
     /\ last.write = "delete" /\ last.err = ErrNil /\ ~IsNil(last.before)) =>
    Deref(last.before).holderIdentity = Some(last.holderIdentity)

\* a call of another manager is between its read and its write
OtherCallPending ==
  \E n \in Holders : n # last.holderIdentity /\ call[n].pc # "idle"

WrittenDueTime ==
  WrittenLease.renewTime[1] + WrittenLease.leaseDurationSeconds[1] * TicksPerSecond

\* C33: a successful RequestLease of the holder of a record with both timing
\* fields never leaves the record with a dueTime earlier than the one it read
RenewalNeverShortens ==
  (RequestSucceeded /\ ReadOwn /\ ReadTimed) =>
    /\ ~IsNil(last.after)
    /\ ~IsNil(WrittenLease.renewTime)
    /\ ~IsNil(WrittenLease.leaseDurationSeconds)
    /\ ReadDueTime <= WrittenDueTime

\* C34: the record a RequestLease creates or updates carries the requested
\* duration truncated to whole seconds, so its dueTime is never later than the
\* call instant plus the requested duration and is earlier by less than a second
WholeSecondDurations ==
  RequestWrote =>
    /\ WrittenLease.leaseDurationSeconds = Some(last.duration \div TicksPerSecond)
    /\ WrittenDueTime <= last.currentTime + last.duration
    /\ last.currentTime + last.duration - WrittenDueTime < TicksPerSecond

\* a takeover has written a requested duration that has a sub-second part
WholeSecondDurationsReached ==
  /\ RequestWrote /\ ReadForeign /\ last.write = "update"
  /\ last.duration % TicksPerSecond # 0
  /\ WrittenDueTime < last.currentTime + last.duration

\* the record the call read has a renewTime later than the call instant
ReadRenewedAhead ==
  /\ ReadTimed
  /\ ReadLease.renewTime[1] > last.currentTime

\* C35: a record of another holder whose renewTime is later than the call
\* instant is not valid although its dueTime has not passed: RequestLease takes
\* it over, with acquireTime = renewTime = now and leaseTransitions one more
FutureRenewTimeIsNotValid ==
  (Returned("request") /\ ReadForeign /\ ReadRenewedAhead) =>
    /\ last.currentTime <= ReadDueTime
    /\ last.err = ErrNil
    /\ last.write = "update"
    /\ WrittenLease.holderIdentity = Some(last.holderIdentity)
    /\ WrittenLease.acquireTime = Some(last.currentTime)
    /\ WrittenLease.renewTime = Some(last.currentTime)
    /\ WrittenLease.leaseTransitions = ReadTransitionsPlusOne

\* a record of another holder, renewed two ticks ahead of the clock and counting
\* 3 transitions, has just been taken over
FutureRenewTimeIsNotValidReached ==
  /\ RequestSucceeded /\ ReadForeign /\ ReadRenewedAhead
  /\ ReadLease.renewTime[1] = last.currentTime + 2
  /\ ReadLease.leaseTransitions = Some(3)
  /\ WrittenLease.leaseTransitions = Some(4)
  /\ store[LeaseName(CalledObject)] = last.after

\* the record the call read is a shell: a holder and an owner reference, the
\* two timing fields, acquireTime and leaseTransitions absent
ReadShell ==
  /\ ~IsNil(last.read)
  /\ ~IsNil(ReadLease.holderIdentity)
  /\ IsNil(ReadLease.acquireTime)
  /\ IsNil(ReadLease.renewTime)
  /\ IsNil(ReadLease.leaseDurationSeconds)
  /\ IsNil(ReadLease.leaseTransitions)

\* C36: InvalidateLease in the mode that clears the fields, on a record that
\* exists, returns success after one update that takes acquireTime, renewTime,
\* leaseDurationSeconds and leaseTransitions off the record and keeps its
\* holderIdentity and owner reference; the lease update of any manager that
\* then finds this shell succeeds and makes the caller the holder
ClearFieldsRelease ==
  /\ (Returned("invalidateClear") /\ ~IsNil(last.read)) =>
       /\ last.err = ErrNil
       /\ last.write = "update"
       /\ last.after =
            Some([ ownerReferences |-> ReadLease.ownerReferences,
                   holderIdentity |-> ReadLease.holderIdentity,
                   leaseDurationSeconds |-> Nil,
                   acquireTime |-> Nil,
                   renewTime |-> Nil,
                   leaseTransitions |-> Nil ])
       /\ store[LeaseName(CalledObject)] = last.after
  /\ (Returned("request") /\ ReadShell) =>
       /\ last.err = ErrNil
       /\ last.write = "update"
       /\ WrittenLease.holderIdentity = Some(last.holderIdentity)
       /\ WrittenLease.renewTime = Some(last.currentTime)
       /\ WrittenLease.acquireTime = Some(last.currentTime)
       /\ WrittenLease.leaseTransitions = Some(1)

\* a manager other than the holder named in the shell has just updated it
ClearFieldsReleaseReached ==
  /\ Returned("request") /\ ReadShell /\ ReadForeign
  /\ last.err = ErrNil /\ last.write = "update"
  /\ store[LeaseName(CalledObject)] = last.after

\* C37: every record that RequestLease calls have built up from an empty store
\* names a holder, has a renewTime that is not after the clock, and an
\* acquireTime, when it has one, that is not after its renewTime
TimestampOrdering ==
  \A k \in Keys :
    ~IsNil(store[k]) =>
      LET lease == Deref(store[k])
      IN /\ ~IsNil(lease.holderIdentity)
         /\ ~IsNil(lease.renewTime)
         /\ lease.renewTime[1] <= now
         /\ ~IsNil(lease.acquireTime) => lease.acquireTime[1] <= lease.renewTime[1]

\* a record acquired at one instant has been renewed at a later one, and the
\* clock has moved on since
TimestampOrderingReached ==
  \E k \in Keys :
    /\ ~IsNil(store[k])
    /\ ~IsNil(Deref(store[k]).acquireTime)
    /\ Deref(store[k]).acquireTime[1] < Deref(store[k]).renewTime[1]
    /\ Deref(store[k]).renewTime[1] < now

\* the record the call read has both timing fields, a renewTime that is not
\* after the call instant, and is still the record in the store at the write
ReadRenewedBefore ==
  /\ Returned("request")
  /\ ~IsNil(last.read)
  /\ ReadTimed
  /\ ReadLease.renewTime[1] <= last.currentTime
  /\ last.before = last.read

\* the owned-lease policy finds the record run out at the call instant: it asks
\* for an update even when no time at all is requested
OwnedPolicyExpired == needUpdateOwnedLease(ReadLease, last.currentTime, 0)[1]

\* both policies put the expiry at the same instant: run out for the holder iff
\* not valid for the others iff dueTime is strictly before the call instant
OneBoundary ==
  /\ OwnedPolicyExpired <=> ~isValidLease(ReadLease, last.currentTime)
  /\ OwnedPolicyExpired <=> ReadDueTime < last.currentTime

\* the call was refused and wrote nothing
Rejected ==
  /\ last.err # ErrNil
  /\ last.write = "none"
  /\ last.after = last.before

\* the call rewrote renewTime and left acquireTime and leaseTransitions alone
RenewedWithoutReset ==
  /\ last.err = ErrNil
  /\ last.write = "update"
  /\ WrittenLease.renewTime = Some(last.currentTime)
  /\ WrittenLease.acquireTime = ReadLease.acquireTime
  /\ WrittenLease.leaseTransitions = ReadLease.leaseTransitions

\* C38 as stated: one expiry boundary for both policies, and at now = dueTime
\* the RequestLease of another manager is rejected while that of the holder
\* renews without resetting acquireTime or leaseTransitions
OneExpiryBoundary ==
  ReadRenewedBefore =>
    /\ OneBoundary
    /\ (last.currentTime = ReadDueTime /\ ReadNotOwn) => Rejected
    /\ (last.currentTime = ReadDueTime /\ ReadOwn) => RenewedWithoutReset

\* C38: one expiry boundary for both policies; at now = dueTime the RequestLease
\* of another manager is rejected, that of the holder renews without resetting
\* acquireTime or leaseTransitions when it asks for more than no time, and
\* writes nothing when it asks for none
OneExpiryBoundaryAmended ==
  ReadRenewedBefore =>
    /\ OneBoundary
    /\ (last.currentTime = ReadDueTime /\ ReadNotOwn) => Rejected
    /\ (last.currentTime = ReadDueTime /\ ReadOwn /\ last.duration > 0) =>
         RenewedWithoutReset
    /\ (last.currentTime = ReadDueTime /\ ReadOwn /\ last.duration = 0) =>
         /\ last.err = ErrNil
         /\ last.write = "none"
         /\ last.after = last.before

\* the holder has renewed, at the very instant its record fell due, a record
\* that it had acquired earlier
OneExpiryBoundaryReached ==
  /\ ReadRenewedBefore /\ ReadOwn
  /\ last.currentTime = ReadDueTime
  /\ last.duration > 0
  /\ RenewedWithoutReset
  /\ ReadLease.renewTime[1] < last.currentTime
  /\ ReadLease.acquireTime = Some(0)

\* the record the call read names no holder, and is still the record in the
\* store at the write
ReadUnheld ==
  /\ Returned("request")
  /\ ~IsNil(last.read)
  /\ IsNil(ReadLease.holderIdentity)
  /\ last.before = last.read

\* C39: a record without holderIdentity is foreign to every manager: while its
\* timing window is valid a RequestLease fails and writes nothing, and once it
\* is not the RequestLease takes the record over, with holderIdentity the
\* caller, acquireTime = renewTime = now and leaseTransitions one more
UnheldRecordIsForeign ==
  ReadUnheld =>
    IF ReadValid
      THEN Rejected
      ELSE /\ last.err = ErrNil
           /\ last.write = "update"
           /\ WrittenLease.holderIdentity = Some(last.holderIdentity)
           /\ WrittenLease.acquireTime = Some(last.currentTime)
           /\ WrittenLease.renewTime = Some(last.currentTime)
           /\ WrittenLease.leaseTransitions = ReadTransitionsPlusOne

\* a record without holder, with 3 transitions, has been taken over after its
\* window had passed
UnheldRecordIsForeignReached ==
  /\ ReadUnheld /\ ReadTimed
  /\ ReadDueTime < last.currentTime
  /\ last.err = ErrNil
  /\ WrittenLease.holderIdentity = Some(last.holderIdentity)
  /\ WrittenLease.leaseTransitions = Some(4)

====
